---- MODULE Spec2Model ----
(***************************************************************************)
(* WebCloneAI backend: the /api/clone handler (server.js), the page        *)
(* renderer scrapeWebsite with its sanitizer cleanHTML (scraper.js) and    *)
(* the code generation client generateBackendCode (aiGenerator.js).        *)
(*                                                                         *)
(* Text is a sequence of one-character strings, so that the regular        *)
(* expressions, substring tests and JSON parsing of the code are computed  *)
(* character by character.                                                 *)
(***************************************************************************)
EXTENDS Integers, Sequences, FiniteSets, TLC

VARIABLES
    cleanIn,      \* cleanHTML: the raw markup handed to the sanitizer
    cleanFrags,   \* number of fragments cleanIn was assembled from
    cleanOut,     \* cleanHTML(cleanIn)
    cleanOut2,    \* cleanHTML(cleanOut)
    cleanPc,      \* "input" | "cleaned" | "recleaned"
    genEnv,       \* generateBackendCode: process.env and the module-level genAI
    genOutcome,   \* what the hosted model does when it is called
    genSource,    \* how the reply text was composed (the payload it wraps)
    genResult,    \* what the call returned or threw
    genPc,        \* "ready" | "done"
    srvEnv,       \* server: process.env (key, NODE_ENV), genAI, the runtime
    req,          \* per request: the handler's position and its local bindings
    sent,         \* per request: the responses written to res, in order
    calls,        \* per request: how often each pipeline stage was invoked
    scrCalls,     \* scrapeWebsite: number of calls started so far
    scrPc,        \* position of the current call
    scrUrl,       \* its argument
    scrBrowser,   \* its "browser" binding: 0 for null, else the handle launched
    scrCloses,    \* how often it has invoked browser.close()
    scrPending,   \* the completion (return or throw) that waits for finally
    scrResult,    \* what the call delivered to its caller
    scrOpen,      \* the browser processes launched and not yet closed
    scrPage       \* the auto-scroll loop: the page's height against the scrolled total

cleanVars == <<cleanIn, cleanFrags, cleanOut, cleanOut2, cleanPc>>
genVars == <<genEnv, genOutcome, genSource, genResult, genPc>>

srvVars == <<srvEnv, req, sent, calls>>

scrVars ==
    <<scrCalls, scrPc, scrUrl, scrBrowser, scrCloses, scrPending, scrResult, scrOpen,
      scrPage>>

vars == <<cleanVars, genVars, srvVars, scrVars>>

\* a step of one component leaves the other components alone
CleanOnly == UNCHANGED <<genVars, srvVars, scrVars>>
GenOnly == UNCHANGED <<cleanVars, srvVars, scrVars>>
SrvOnly == UNCHANGED <<cleanVars, genVars, scrVars>>
ScrOnly == UNCHANGED <<cleanVars, genVars, srvVars>>

-----------------------------------------------------------------------------
(* Characters and substring primitives (JavaScript String / RegExp).      *)

UpperLetters == <<"A", "B", "C", "D", "E", "F", "G", "H", "I", "J", "K", "L", "M",
                  "N", "O", "P", "Q", "R", "S", "T", "U", "V", "W", "X", "Y", "Z">>
LowerLetters == <<"a", "b", "c", "d", "e", "f", "g", "h", "i", "j", "k", "l", "m",
                  "n", "o", "p", "q", "r", "s", "t", "u", "v", "w", "x", "y", "z">>
\* the backtick character (a string literal cannot hold it)
Backtick == "BACKTICK"

Digits == <<"0", "1", "2", "3", "4", "5", "6", "7", "8", "9">>

UpperSet == {UpperLetters[i] : i \in 1..26}
LowerSet == {LowerLetters[i] : i \in 1..26}
DigitSet == {Digits[i] : i \in 1..10}

\* the i flag of a RegExp: characters are compared after case folding
ToLower == [c \in UpperSet |-> LowerLetters[CHOOSE i \in 1..26 : UpperLetters[i] = c]]
Lower(c) == IF c \in UpperSet THEN ToLower[c] ELSE c

\* \w and \s of a RegExp
IsWordChar(c) == c \in UpperSet \cup LowerSet \cup DigitSet \cup {"_"}
IsSpace(c) == c \in {" ", "\n", "\t", "\r"}
\* a dot without the s flag matches anything but a line terminator
IsLineTerminator(c) == c \in {"\n", "\r"}

\* pat occurs in s at index i (1-based); ci = compare case-insensitively
MatchAt(s, i, pat, ci) ==
    /\ i >= 1
    /\ i + Len(pat) - 1 <= Len(s)
    /\ \A k \in 1..Len(pat) :
          IF ci THEN Lower(s[i + k - 1]) = Lower(pat[k]) ELSE s[i + k - 1] = pat[k]

Min(S) == CHOOSE x \in S : \A y \in S : x <= y
Max(S) == CHOOSE x \in S : \A y \in S : x >= y

\* the smallest index j >= i at which pat occurs in s, or 0
FindFrom(s, i, pat, ci) ==
    LET hits == {j \in i..(Len(s) - Len(pat) + 1) : MatchAt(s, j, pat, ci)}
    IN  IF hits = {} THEN 0 ELSE Min(hits)

\* the largest index j <= i at which pat occurs in s, or 0
FindLastFrom(s, i, pat) ==
    LET hits == {j \in 1..i : MatchAt(s, j, pat, FALSE)}
    IN  IF hits = {} THEN 0 ELSE Max(hits)

\* String.prototype.includes / indexOf / lastIndexOf (1-based, 0 = not found)
Includes(s, pat) == FindFrom(s, 1, pat, FALSE) # 0
IncludesCI(s, pat) == FindFrom(s, 1, pat, TRUE) # 0
IndexOf(s, pat) == FindFrom(s, 1, pat, FALSE)
LastIndexOf(s, pat) == FindLastFrom(s, Len(s) - Len(pat) + 1, pat)

\* s.substring(a, b) with 1-based inclusive bounds
Slice(s, a, b) == IF a > b THEN <<>> ELSE SubSeq(s, a, b)

\* a line terminator occurs in s[a..b]
HasLineTerminator(s, a, b) == \E k \in a..b : IsLineTerminator(s[k])

\* the last index of the run of whitespace starting at i (i - 1 if none)
SpaceRunEnd(s, i) ==
    LET stops == {j \in i..Len(s) : ~IsSpace(s[j])}
    IN  IF stops = {} THEN Len(s) ELSE Min(stops) - 1

\* String.prototype.trim
Trim(s) ==
    LET kept == {j \in 1..Len(s) : ~IsSpace(s[j])}
    IN  IF kept = {} THEN <<>> ELSE SubSeq(s, Min(kept), Max(kept))

-----------------------------------------------------------------------------
(* Texts of the program and of its runtime, character by character.       *)

TagScript ==
    <<"s", "c", "r", "i", "p", "t">>
TagIframe ==
    <<"i", "f", "r", "a", "m", "e">>
TagNoscript ==
    <<"n", "o", "s", "c", "r", "i", "p", "t">>
KwGoogleAnalytics ==
    <<"G", "o", "o", "g", "l", "e", " ", "A", "n", "a", "l", "y", "t", "i", "c", "s">>
KwGtag ==
    <<"g", "t", "a", "g">>
CommentOpen ==
    <<"<", "!", "-", "-">>
CommentClose ==
    <<"-", "-", ">">>
GtmPrefix ==
    <<"d", "a", "t", "a", "-", "g", "t", "m", "-">>
GaPrefix ==
    <<"g", "a", "(">>
MsgKeyNotConfigured ==
    <<"G", "E", "M", "I", "N", "I", "_", "A", "P", "I", "_", "K", "E", "Y", " ", "i", "s", " ",
      "n", "o", "t", " ", "c", "o", "n", "f", "i", "g", "u", "r", "e", "d", " ", "i", "n", " ",
      ".", "e", "n", "v", " ", "f", "i", "l", "e">>
MsgClientNotInitialized ==
    <<"G", "e", "m", "i", "n", "i", " ", "A", "I", " ", "c", "l", "i", "e", "n", "t", " ", "n",
      "o", "t", " ", "i", "n", "i", "t", "i", "a", "l", "i", "z", "e", "d">>
MsgInvalidJsonPrefix ==
    <<"A", "I", " ", "r", "e", "t", "u", "r", "n", "e", "d", " ", "i", "n", "v", "a", "l", "i",
      "d", " ", "J", "S", "O", "N", ":", " ">>
MsgMissingFields ==
    <<"A", "I", " ", "r", "e", "s", "p", "o", "n", "s", "e", " ", "m", "i", "s", "s", "i", "n",
      "g", " ", "r", "e", "q", "u", "i", "r", "e", "d", " ", "f", "i", "e", "l", "d", "s", " ",
      "(", "s", "q", "l", "S", "c", "h", "e", "m", "a", " ", "o", "r", " ", "n", "o", "d", "e",
      "R", "o", "u", "t", "e", ")">>
ErrInvalidKey ==
    <<"I", "n", "v", "a", "l", "i", "d", " ", "o", "r", " ", "m", "i", "s", "s", "i", "n", "g",
      " ", "G", "e", "m", "i", "n", "i", " ", "A", "P", "I", " ", "k", "e", "y", ".", " ", "C",
      "h", "e", "c", "k", " ", "y", "o", "u", "r", " ", ".", "e", "n", "v", " ", "f", "i", "l",
      "e", ".">>
ErrRateLimit ==
    <<"G", "e", "m", "i", "n", "i", " ", "A", "P", "I", " ", "r", "a", "t", "e", " ", "l", "i",
      "m", "i", "t", " ", "e", "x", "c", "e", "e", "d", "e", "d", ".", " ", "P", "l", "e", "a",
      "s", "e", " ", "t", "r", "y", " ", "a", "g", "a", "i", "n", " ", "l", "a", "t", "e", "r",
      ".">>
ErrQuota ==
    <<"G", "e", "m", "i", "n", "i", " ", "A", "P", "I", " ", "q", "u", "o", "t", "a", " ", "e",
      "x", "c", "e", "e", "d", "e", "d", ".", " ", "C", "h", "e", "c", "k", " ", "y", "o", "u",
      "r", " ", "G", "o", "o", "g", "l", "e", " ", "C", "l", "o", "u", "d", " ", "q", "u", "o",
      "t", "a", ".">>
ErrBlocked ==
    <<"C", "o", "n", "t", "e", "n", "t", " ", "w", "a", "s", " ", "b", "l", "o", "c", "k", "e",
      "d", " ", "b", "y", " ", "G", "e", "m", "i", "n", "i", " ", "s", "a", "f", "e", "t", "y",
      " ", "f", "i", "l", "t", "e", "r", "s", ".">>
PatApiKeyUpper ==
    <<"A", "P", "I", "_", "K", "E", "Y">>
PatApiKeyWords ==
    <<"A", "P", "I", " ", "k", "e", "y">>
PatRateLimit ==
    <<"R", "A", "T", "E", "_", "L", "I", "M", "I", "T">>
PatQuotaUpper ==
    <<"Q", "U", "O", "T", "A">>
PatQuotaLower ==
    <<"q", "u", "o", "t", "a">>
PatBlocked ==
    <<"b", "l", "o", "c", "k", "e", "d">>
FenceJson ==
    <<Backtick, Backtick, Backtick, "j", "s", "o", "n">>
FenceJavascript ==
    <<Backtick, Backtick, Backtick, "j", "a", "v", "a", "s", "c", "r", "i", "p", "t">>
Fence ==
    <<Backtick, Backtick, Backtick>>
KeySqlSchema ==
    <<"s", "q", "l", "S", "c", "h", "e", "m", "a">>
KeyNodeRoute ==
    <<"n", "o", "d", "e", "R", "o", "u", "t", "e">>
FallbackSqlSchema ==
    <<"-", "-", " ", "F", "a", "l", "l", "b", "a", "c", "k", " ", "S", "Q", "L", " ", "S", "c",
      "h", "e", "m", "a">>
FallbackNodeRoute ==
    <<"/", "/", " ", "F", "a", "l", "l", "b", "a", "c", "k", " ", "N", "o", "d", "e", ".", "j",
      "s", " ", "E", "x", "p", "r", "e", "s", "s", " ", "R", "o", "u", "t", "e">>
TxtUnexpectedToken ==
    <<"U", "n", "e", "x", "p", "e", "c", "t", "e", "d", " ", "t", "o", "k", "e", "n", " ">>
TxtNotValidJson ==
    <<" ", "i", "s", " ", "n", "o", "t", " ", "v", "a", "l", "i", "d", " ", "J", "S", "O", "N">>
TxtUnexpectedEnd ==
    <<"U", "n", "e", "x", "p", "e", "c", "t", "e", "d", " ", "e", "n", "d", " ", "o", "f", " ",
      "J", "S", "O", "N", " ", "i", "n", "p", "u", "t">>
TxtUnexpectedString ==
    <<"U", "n", "e", "x", "p", "e", "c", "t", "e", "d", " ", "s", "t", "r", "i", "n", "g">>
TxtInJsonAtPosition ==
    <<" ", "i", "n", " ", "J", "S", "O", "N", " ", "a", "t", " ", "p", "o", "s", "i", "t", "i",
      "o", "n", " ">>
TxtTrailing ==
    <<"U", "n", "e", "x", "p", "e", "c", "t", "e", "d", " ", "n", "o", "n", "-", "w", "h", "i",
      "t", "e", "s", "p", "a", "c", "e", " ", "c", "h", "a", "r", "a", "c", "t", "e", "r", " ",
      "a", "f", "t", "e", "r", " ", "J", "S", "O", "N">>
TxtExpectedPropOrBrace ==
    <<"E", "x", "p", "e", "c", "t", "e", "d", " ", "p", "r", "o", "p", "e", "r", "t", "y", " ",
      "n", "a", "m", "e", " ", "o", "r", " ", "'", "}", "'">>
TxtExpectedColon ==
    <<"E", "x", "p", "e", "c", "t", "e", "d", " ", "'", ":", "'", " ", "a", "f", "t", "e", "r",
      " ", "p", "r", "o", "p", "e", "r", "t", "y", " ", "n", "a", "m", "e">>
TxtExpectedCommaOrBrace ==
    <<"E", "x", "p", "e", "c", "t", "e", "d", " ", "'", ",", "'", " ", "o", "r", " ", "'", "}",
      "'", " ", "a", "f", "t", "e", "r", " ", "p", "r", "o", "p", "e", "r", "t", "y", " ", "v",
      "a", "l", "u", "e">>
TxtExpectedDqProp ==
    <<"E", "x", "p", "e", "c", "t", "e", "d", " ", "d", "o", "u", "b", "l", "e", "-", "q", "u",
      "o", "t", "e", "d", " ", "p", "r", "o", "p", "e", "r", "t", "y", " ", "n", "a", "m", "e">>
TxtUnterminated ==
    <<"U", "n", "t", "e", "r", "m", "i", "n", "a", "t", "e", "d", " ", "s", "t", "r", "i", "n",
      "g">>
TxtBadControl ==
    <<"B", "a", "d", " ", "c", "o", "n", "t", "r", "o", "l", " ", "c", "h", "a", "r", "a", "c",
      "t", "e", "r", " ", "i", "n", " ", "s", "t", "r", "i", "n", "g", " ", "l", "i", "t", "e",
      "r", "a", "l">>
TxtBadEscape ==
    <<"B", "a", "d", " ", "e", "s", "c", "a", "p", "e", "d", " ", "c", "h", "a", "r", "a", "c",
      "t", "e", "r">>
TxtNullProperty ==
    <<"C", "a", "n", "n", "o", "t", " ", "r", "e", "a", "d", " ", "p", "r", "o", "p", "e", "r",
      "t", "i", "e", "s", " ", "o", "f", " ", "n", "u", "l", "l", " ", "(", "r", "e", "a", "d",
      "i", "n", "g", " ", "'", "s", "q", "l", "S", "c", "h", "e", "m", "a", "'", ")">>
LitNull ==
    <<"n", "u", "l", "l">>
LitTrue ==
    <<"t", "r", "u", "e">>
LitFalse ==
    <<"f", "a", "l", "s", "e">>

ErrUrlRequired ==
    <<"U", "R", "L", " ", "i", "s", " ", "r", "e", "q", "u", "i", "r", "e", "d">>
MsgUrlRequired ==
    <<"P", "l", "e", "a", "s", "e", " ", "p", "r", "o", "v", "i", "d", "e", " ", "a", " ", "v",
      "a", "l", "i", "d", " ", "U", "R", "L", " ", "t", "o", " ", "c", "l", "o", "n", "e">>
ErrInvalidUrl ==
    <<"I", "n", "v", "a", "l", "i", "d", " ", "U", "R", "L">>
MsgInvalidUrl ==
    <<"P", "l", "e", "a", "s", "e", " ", "p", "r", "o", "v", "i", "d", "e", " ", "a", " ", "v",
      "a", "l", "i", "d", " ", "U", "R", "L", " ", "f", "o", "r", "m", "a", "t">>
ErrInternal ==
    <<"I", "n", "t", "e", "r", "n", "a", "l", " ", "s", "e", "r", "v", "e", "r", " ", "e", "r",
      "r", "o", "r">>
MsgCloneFailed ==
    <<"F", "a", "i", "l", "e", "d", " ", "t", "o", " ", "c", "l", "o", "n", "e", " ", "w", "e",
      "b", "s", "i", "t", "e", ".", " ", "P", "l", "e", "a", "s", "e", " ", "c", "h", "e", "c",
      "k", " ", "t", "h", "e", " ", "U", "R", "L", " ", "a", "n", "d", " ", "t", "r", "y", " ",
      "a", "g", "a", "i", "n", ".">>
MsgScrapePrefix ==
    <<"F", "a", "i", "l", "e", "d", " ", "t", "o", " ", "s", "c", "r", "a", "p", "e", " ", "w",
      "e", "b", "s", "i", "t", "e", ":", " ">>
SchemeHttp ==
    <<"h", "t", "t", "p">>
SchemeHttps ==
    <<"h", "t", "t", "p", "s">>
SchemeFtp ==
    <<"f", "t", "p">>
SchemeWs ==
    <<"w", "s">>
SchemeWss ==
    <<"w", "s", "s">>
SchemeFile ==
    <<"f", "i", "l", "e">>

-----------------------------------------------------------------------------
(* cleanHTML (scraper.js): the regular expressions, each as the index of  *)
(* the last character of its match starting at i, or 0 when it does not   *)
(* match there.                                                            *)

\* /<tag\b[^<]*(?:(?!<\/tag>)<[^<]*)*<\/tag>/gi : "<tag" at a word boundary,
\* then every following "<" is consumed unless it starts "</tag>", so the match
\* ends with the first "</tag>" that follows; without one there is no match.
TagBlockEnd(s, i, tag) ==
    LET open  == <<"<">> \o tag
        close == <<"<", "/">> \o tag \o <<">">>
        after == i + Len(open)
    IN  IF /\ MatchAt(s, i, open, TRUE)
           /\ (after > Len(s) \/ ~IsWordChar(s[after]))
        THEN LET j == FindFrom(s, after, close, TRUE)
             IN  IF j = 0 THEN 0 ELSE j + Len(close) - 1
        ELSE 0

\* /<!--.*?KW.*?-->/gi : the lazy dots stay on one line
CommentEnd(s, i, kw) ==
    IF ~MatchAt(s, i, CommentOpen, TRUE) THEN 0
    ELSE LET from == i + Len(CommentOpen)
             k    == FindFrom(s, from, kw, TRUE)
         IN  IF k = 0 \/ HasLineTerminator(s, from, k - 1) THEN 0
             ELSE LET m == FindFrom(s, k + Len(kw), CommentClose, TRUE)
                  IN  IF m = 0 \/ HasLineTerminator(s, k + Len(kw), m - 1) THEN 0
                      ELSE m + Len(CommentClose) - 1

\* /data-gtm-[^=]*="[^"]*"/gi
GtmAttrEnd(s, i) ==
    IF ~MatchAt(s, i, GtmPrefix, TRUE) THEN 0
    ELSE LET e == FindFrom(s, i + Len(GtmPrefix), <<"=">>, FALSE)
         IN  IF e = 0 \/ ~MatchAt(s, e + 1, <<"\"">>, FALSE) THEN 0
             ELSE FindFrom(s, e + 2, <<"\"">>, FALSE)

\* /ga\([^)]*\)/gi
GaCallEnd(s, i) ==
    IF ~MatchAt(s, i, GaPrefix, TRUE) THEN 0
    ELSE FindFrom(s, i + Len(GaPrefix), <<")">>, FALSE)

\* /\s+/g
SpacesEnd(s, i) == IF IsSpace(s[i]) THEN SpaceRunEnd(s, i) ELSE 0

\* />\s+</g
BetweenTagsEnd(s, i) ==
    IF s[i] # ">" THEN 0
    ELSE LET e == SpaceRunEnd(s, i + 1)
         IN  IF e >= i + 1 /\ e + 1 <= Len(s) /\ s[e + 1] = "<" THEN e + 1 ELSE 0

\* the three fence patterns of aiGenerator.js: three backticks, then json or
\* javascript (i flag) or nothing, then \s*; all with the g flag
FenceEnd(s, i, marker, ci) ==
    IF MatchAt(s, i, marker, ci) THEN SpaceRunEnd(s, i + Len(marker)) ELSE 0

MatchEnd(p, s, i) ==
    CASE p = "script"   -> TagBlockEnd(s, i, TagScript)
      [] p = "iframe"   -> TagBlockEnd(s, i, TagIframe)
      [] p = "noscript" -> TagBlockEnd(s, i, TagNoscript)
      [] p = "ga-comment"   -> CommentEnd(s, i, KwGoogleAnalytics)
      [] p = "gtag-comment" -> CommentEnd(s, i, KwGtag)
      [] p = "gtm-attr" -> GtmAttrEnd(s, i)
      [] p = "ga-call"  -> GaCallEnd(s, i)
      [] p = "spaces"   -> SpacesEnd(s, i)
      [] p = "between-tags" -> BetweenTagsEnd(s, i)
      [] p = "fence-json" -> FenceEnd(s, i, FenceJson, TRUE)
      [] p = "fence-javascript" -> FenceEnd(s, i, FenceJavascript, TRUE)
      [] p = "fence" -> FenceEnd(s, i, Fence, FALSE)

\* html.replace(pattern, repl) with the g flag: matches are taken left to right,
\* each search resuming after the previous match
RECURSIVE ReplaceFrom(_, _, _, _)
ReplaceFrom(s, i, p, repl) ==
    LET starts == {j \in i..Len(s) : MatchEnd(p, s, j) # 0}
    IN  IF starts = {} THEN Slice(s, i, Len(s))
        ELSE LET j == Min(starts)
             IN  Slice(s, i, j - 1) \o repl \o ReplaceFrom(s, MatchEnd(p, s, j) + 1, p, repl)

ReplaceAll(s, p, repl) == ReplaceFrom(s, 1, p, repl)

\* trackingPatterns.forEach(pattern => html = html.replace(pattern, ''))
RemoveTracking(s) ==
    ReplaceAll(ReplaceAll(ReplaceAll(ReplaceAll(s,
        "ga-comment", <<>>), "gtag-comment", <<>>), "gtm-attr", <<>>), "ga-call", <<>>)

RemoveTagBlocks(s) ==
    ReplaceAll(ReplaceAll(ReplaceAll(s, "script", <<>>), "iframe", <<>>), "noscript", <<>>)

CollapseWhitespace(s) ==
    ReplaceAll(ReplaceAll(s, "spaces", <<" ">>), "between-tags", <<">", "<">>)

cleanHTML(html) == Trim(CollapseWhitespace(RemoveTracking(RemoveTagBlocks(html))))

-----------------------------------------------------------------------------
(* JSON.parse (the runtime's), restricted to the values the replies of the *)
(* model use: objects, strings, null, true and false, with whitespace.     *)
(* No reply of the model starts a value with a digit, "-" or "[".          *)

JStr(s) == [t |-> "str", s |-> s]
JNull == [t |-> "null"]
JBool(b) == [t |-> "bool", b |-> b]
JObj(members) == [t |-> "obj", members |-> members]

ParseOk(v, next) == [ok |-> TRUE, v |-> v, next |-> next]
\* pos is the 0-based offset the runtime reports
ParseErr(kind, pos) == [ok |-> FALSE, kind |-> kind, pos |-> pos]

SkipWs(s, i) == SpaceRunEnd(s, i) + 1

\* the character an escape sequence stands for
Unescape == [c \in {"\"", "\\", "/", "n", "t", "r"} |->
               CASE c = "n" -> "\n" [] c = "t" -> "\t" [] c = "r" -> "\r" [] OTHER -> c]

\* the body of a string literal from index i (after the opening quote)
RECURSIVE ScanString(_, _, _)
ScanString(s, i, acc) ==
    IF i > Len(s) THEN ParseErr("unterminated", Len(s))
    ELSE IF s[i] = "\"" THEN ParseOk(acc, i + 1)
    ELSE IF s[i] = "\\" THEN
        IF i + 1 > Len(s) THEN ParseErr("unterminated", Len(s))
        ELSE IF s[i + 1] \in DOMAIN Unescape
             THEN ScanString(s, i + 2, Append(acc, Unescape[s[i + 1]]))
             ELSE ParseErr("bad-escape", i)
    ELSE IF s[i] \in {"\n", "\t", "\r"} THEN ParseErr("bad-control", i - 1)
    ELSE ScanString(s, i + 1, Append(acc, s[i]))

\* a literal (null, true, false) at index i: the first mismatch is the error
ScanLiteral(s, i, lit, v) ==
    IF MatchAt(s, i, lit, FALSE) THEN ParseOk(v, i + Len(lit))
    ELSE LET k == CHOOSE k \in 1..Len(lit) :
                     /\ (i + k - 1 > Len(s) \/ s[i + k - 1] # lit[k])
                     /\ \A m \in 1..(k - 1) : s[i + m - 1] = lit[m]
         IN  IF i + k - 1 > Len(s) THEN ParseErr("eos", Len(s))
             ELSE ParseErr("token", i + k - 2)

RECURSIVE ParseValue(_, _), ParseMembers(_, _, _)

ParseValue(s, i0) ==
    LET i == SkipWs(s, i0)
    IN  IF i > Len(s) THEN ParseErr("eos", Len(s))
        ELSE IF s[i] = "\"" THEN
            LET r == ScanString(s, i + 1, <<>>)
            IN  IF r.ok THEN ParseOk(JStr(r.v), r.next) ELSE r
        ELSE IF s[i] = "{" THEN
            LET j == SkipWs(s, i + 1)
            IN  IF j > Len(s) THEN ParseErr("expected-prop-or-brace", Len(s))
                ELSE IF s[j] = "}" THEN ParseOk(JObj(<<>>), j + 1)
                ELSE IF s[j] # "\"" THEN ParseErr("expected-prop-or-brace", j - 1)
                ELSE ParseMembers(s, j, <<>>)
        ELSE IF s[i] = "n" THEN ScanLiteral(s, i, LitNull, JNull)
        ELSE IF s[i] = "t" THEN ScanLiteral(s, i, LitTrue, JBool(TRUE))
        ELSE IF s[i] = "f" THEN ScanLiteral(s, i, LitFalse, JBool(FALSE))
        ELSE ParseErr("token", i - 1)

\* the members of an object from the opening quote of a property name at j
ParseMembers(s, j, acc) ==
    LET k == ScanString(s, j + 1, <<>>)
    IN  IF ~k.ok THEN k
        ELSE LET c == SkipWs(s, k.next)
             IN  IF c > Len(s) \/ s[c] # ":" THEN ParseErr("expected-colon", c - 1)
                 ELSE LET v == ParseValue(s, c + 1)
                      IN  IF ~v.ok THEN v
                          ELSE LET d    == SkipWs(s, v.next)
                                   more == Append(acc, <<k.v, v.v>>)
                               IN  IF d <= Len(s) /\ s[d] = "}"
                                       THEN ParseOk(JObj(more), d + 1)
                                   ELSE IF d <= Len(s) /\ s[d] = ","
                                       THEN LET e == SkipWs(s, d + 1)
                                            IN  IF e <= Len(s) /\ s[e] = "\""
                                                THEN ParseMembers(s, e, more)
                                                ELSE ParseErr("expected-dq-prop", e - 1)
                                   ELSE ParseErr("expected-comma-or-brace", d - 1)

JSONParse(s) ==
    LET r == ParseValue(s, 1)
    IN  IF ~r.ok THEN r
        ELSE LET t == SkipWs(s, r.next)
             IN  IF t <= Len(s) THEN ParseErr("trailing", t - 1) ELSE r

\* a natural number in decimal
RECURSIVE Decimal(_)
Decimal(n) == IF n < 10 THEN <<Digits[n + 1]>> ELSE Decimal(n \div 10) \o <<Digits[(n % 10) + 1]>>

\* how much of the source the runtime quotes around an unexpected token
MaxContextCharacters == 10

Quoted(s) == <<"\"">> \o s \o <<"\"">>
Ellipsis == <<".", ".", ".">>

\* SyntaxError.message of JSON.parse. Two generations of the runtime differ:
\* "context" (V8 since 10.5, Node 20) quotes the source text around an
\* unexpected token; "legacy" (Node 18 and before) names the token only.
JSONErrorMessage(engine, src, err) ==
    LET pos == err.pos
        n   == Len(src)
        at(txt) == txt \o TxtInJsonAtPosition \o Decimal(pos)
    IN  IF err.kind = "eos" THEN TxtUnexpectedEnd
        ELSE IF engine = "legacy" THEN
            IF pos >= n THEN TxtUnexpectedEnd
            ELSE IF src[pos + 1] = "\"" THEN at(TxtUnexpectedString)
            ELSE at(TxtUnexpectedToken \o <<src[pos + 1]>>)
        ELSE CASE err.kind = "token" ->
                    LET head == TxtUnexpectedToken \o <<"'", src[pos + 1], "'", ",", " ">>
                        m    == MaxContextCharacters
                    IN  IF n < 2 * m + 1
                            THEN head \o Quoted(src) \o TxtNotValidJson
                        ELSE IF pos < m
                            THEN head \o Quoted(Slice(src, 1, pos + m)) \o Ellipsis
                                      \o TxtNotValidJson
                        ELSE IF pos < n - m
                            THEN head \o Ellipsis \o Quoted(Slice(src, pos - m + 1, pos + m))
                                      \o Ellipsis \o TxtNotValidJson
                        ELSE head \o Ellipsis \o Quoted(Slice(src, pos - m + 1, n))
                                  \o TxtNotValidJson
               [] err.kind = "trailing" -> at(TxtTrailing)
               [] err.kind = "expected-prop-or-brace" -> at(TxtExpectedPropOrBrace)
               [] err.kind = "expected-colon" -> at(TxtExpectedColon)
               [] err.kind = "expected-comma-or-brace" -> at(TxtExpectedCommaOrBrace)
               [] err.kind = "expected-dq-prop" -> at(TxtExpectedDqProp)
               [] err.kind = "unterminated" -> at(TxtUnterminated)
               [] err.kind = "bad-control" -> at(TxtBadControl)
               [] err.kind = "bad-escape" -> at(TxtBadEscape)

\* obj[key] of a parsed object: the last member of that name, or undefined
Undefined == [t |-> "undefined"]
RECURSIVE GetMember(_, _, _)
GetMember(members, i, key) ==
    IF i < 1 THEN Undefined
    ELSE IF members[i][1] = key THEN members[i][2]
    ELSE GetMember(members, i - 1, key)
GetProperty(v, key) ==
    IF v.t = "obj" THEN GetMember(v.members, Len(v.members), key) ELSE Undefined

\* JavaScript truthiness of a value
Truthy(v) ==
    CASE v.t = "str" -> v.s # <<>>
      [] v.t = "bool" -> v.b
      [] v.t = "obj" -> TRUE
      [] OTHER -> FALSE

-----------------------------------------------------------------------------
(* generateBackendCode (aiGenerator.js)                                    *)

\* String.prototype.substring(a, b) on 1-based first and last indices: the
\* arguments are swapped when the start lies after the end
Substring(s, first, last) ==
    IF first - 1 <= last THEN Slice(s, first, last) ELSE Slice(s, last + 1, first - 1)

\* "Remove markdown code blocks": the three content.replace calls
StripFences(content) ==
    ReplaceAll(ReplaceAll(ReplaceAll(content,
        "fence-json", <<>>), "fence-javascript", <<>>), "fence", <<>>)

\* "Remove any text before first { and after last }"
NarrowToBraces(content) ==
    LET firstBrace == IndexOf(content, <<"{">>)
        lastBrace  == LastIndexOf(content, <<"}">>)
    IN  IF firstBrace # 0 /\ lastBrace # 0
        THEN Substring(content, firstBrace, lastBrace)
        ELSE content

CleanReply(content) == Trim(NarrowToBraces(StripFences(Trim(content))))

getFallbackCode == [sqlSchema |-> JStr(FallbackSqlSchema), nodeRoute |-> JStr(FallbackNodeRoute)]

Returned(v, invoked) == [kind |-> "return", value |-> v, invoked |-> invoked]
Thrown(msg, invoked) == [kind |-> "throw", message |-> msg, invoked |-> invoked]

\* the validated fields, or the Error for a reply lacking one of them
ValidateFields(sqlSchema, nodeRoute) ==
    IF ~Truthy(sqlSchema) \/ ~Truthy(nodeRoute)
        THEN Thrown(MsgMissingFields, TRUE)
    ELSE Returned([sqlSchema |-> sqlSchema, nodeRoute |-> nodeRoute], TRUE)

\* what follows JSON.parse: its SyntaxError rewrapped, or the fields read
\* from the parsed value (reading a property of null is a TypeError)
ReadParsed(engine, content, parsed) ==
    IF ~parsed.ok
        THEN Thrown(MsgInvalidJsonPrefix \o JSONErrorMessage(engine, content, parsed), TRUE)
    ELSE IF parsed.v.t = "null" THEN Thrown(TxtNullProperty, TRUE)
    ELSE ValidateFields(GetProperty(parsed.v, KeySqlSchema),
                        GetProperty(parsed.v, KeyNodeRoute))

ParseContent(engine, content) == ReadParsed(engine, content, JSONParse(content))

\* the try block: what it returns, or the Error it throws
GenerateTry(env, outcome) ==
    IF ~env.apiKey THEN Thrown(MsgKeyNotConfigured, FALSE)
    ELSE IF ~env.genAI THEN Thrown(MsgClientNotInitialized, FALSE)
    ELSE IF outcome.kind # "reply" THEN Thrown(outcome.message, TRUE)
    ELSE ParseContent(env.engine, CleanReply(outcome.text))

\* the catch block: "Check for specific Gemini errors", else the fallback
GenerateCatch(msg, invoked) ==
    IF msg # <<>> /\ (Includes(msg, PatApiKeyUpper) \/ Includes(msg, PatApiKeyWords))
        THEN Thrown(ErrInvalidKey, invoked)
    ELSE IF msg # <<>> /\ Includes(msg, PatRateLimit)
        THEN Thrown(ErrRateLimit, invoked)
    ELSE IF msg # <<>> /\ (Includes(msg, PatQuotaUpper) \/ Includes(msg, PatQuotaLower))
        THEN Thrown(ErrQuota, invoked)
    ELSE IF msg # <<>> /\ Includes(msg, PatBlocked)
        THEN Thrown(ErrBlocked, invoked)
    ELSE Returned(getFallbackCode, invoked)

\* the try block settled: its return value, or what the catch makes of its Error
Settle(r) == IF r.kind = "throw" THEN GenerateCatch(r.message, r.invoked) ELSE r

generateBackendCode(env, outcome) == Settle(GenerateTry(env, outcome))

-----------------------------------------------------------------------------
(* Inputs of the sanitizer: markup assembled from fragments.              *)

FragScriptOpen ==
    <<"<", "s", "c", "r", "i", "p", "t", ">">>
FragScriptClose ==
    <<"<", "/", "s", "c", "r", "i", "p", "t", ">">>
FragScr ==
    <<"<", "s", "c", "r">>
FragIpt ==
    <<"i", "p", "t", ">">>
FragIframeBlock ==
    <<"<", "I", "F", "R", "A", "M", "E", ">", "<", "/", "i", "f", "r", "a", "m", "e", ">">>
FragNoscriptBlock ==
    <<"<", "n", "o", "s", "c", "r", "i", "p", "t", ">", "x", "<", "/", "n", "o", "s", "c", "r",
      "i", "p", "t", ">">>
FragGa ==
    <<"g", "a", "(", ")">>
FragSpace ==
    <<" ">>
FragNewline ==
    <<"\n">>
FragGtagOpen ==
    <<"<", "!", "-", "-", " ", "g", "t", "a", "g">>
FragCommentClose ==
    <<"-", "-", ">">>
FragGtmAttr ==
    <<"<", "p", " ", "d", "a", "t", "a", "-", "g", "t", "m", "-", "x", "=", "\"", "1", "\"",
      ">">>
FragGaComment ==
    <<"<", "!", "-", "-", "G", "o", "o", "g", "l", "e", " ", "A", "n", "a", "l", "y", "t", "i",
      "c", "s", "-", "-", ">">>

Fragments ==
    { FragScriptOpen, FragScriptClose, FragScr, FragIpt, FragIframeBlock,
      FragNoscriptBlock, FragGa, FragSpace, FragNewline, FragGtagOpen,
      FragCommentClose, FragGtmAttr, FragGaComment }

MaxFrags == 4

CleanInit ==
    /\ cleanIn = <<>>
    /\ cleanFrags = 0
    /\ cleanOut = <<>>
    /\ cleanOut2 = <<>>
    /\ cleanPc = "input"

\* the page grows by one fragment
AppendFragment ==
    /\ cleanPc = "input"
    /\ cleanFrags < MaxFrags
    /\ \E f \in Fragments : cleanIn' = cleanIn \o f
    /\ cleanFrags' = cleanFrags + 1
    /\ UNCHANGED <<cleanOut, cleanOut2, cleanPc>>
    /\ CleanOnly

\* cleanedHTML = cleanHTML(extractedData.html)
CleanOnce ==
    /\ cleanPc = "input"
    /\ cleanOut' = cleanHTML(cleanIn)
    /\ cleanPc' = "cleaned"
    /\ UNCHANGED <<cleanIn, cleanFrags, cleanOut2>>
    /\ CleanOnly

\* the sanitizer applied to its own output
CleanAgain ==
    /\ cleanPc = "cleaned"
    /\ cleanOut2' = cleanHTML(cleanOut)
    /\ cleanPc' = "recleaned"
    /\ UNCHANGED <<cleanIn, cleanFrags, cleanOut>>
    /\ CleanOnly

CleanNext == AppendFragment \/ CleanOnce \/ CleanAgain


CleanIdle ==
    /\ cleanIn = <<>>
    /\ cleanFrags = 0
    /\ cleanOut = <<>>
    /\ cleanOut2 = <<>>
    /\ cleanPc = "off"

-----------------------------------------------------------------------------
(* Inputs of the generation client: the configuration, and what the hosted *)
(* model does (the SDK rejects, or a reply text arrives).                  *)

SdkKeyInvalid ==
    <<"A", "P", "I", " ", "k", "e", "y", " ", "n", "o", "t", " ", "v", "a", "l", "i", "d", ".",
      " ", "P", "l", "e", "a", "s", "e", " ", "p", "a", "s", "s", " ", "a", " ", "v", "a", "l",
      "i", "d", " ", "A", "P", "I", " ", "k", "e", "y", ".">>
SdkKeyInvalidCode ==
    <<"A", "P", "I", "_", "K", "E", "Y", "_", "I", "N", "V", "A", "L", "I", "D">>
SdkRateLimit ==
    <<"R", "A", "T", "E", "_", "L", "I", "M", "I", "T", "_", "E", "X", "C", "E", "E", "D", "E",
      "D">>
SdkQuotaCode ==
    <<"Q", "U", "O", "T", "A", "_", "E", "X", "C", "E", "E", "D", "E", "D">>
SdkQuotaWords ==
    <<"Y", "o", "u", " ", "e", "x", "c", "e", "e", "d", "e", "d", " ", "y", "o", "u", "r", " ",
      "c", "u", "r", "r", "e", "n", "t", " ", "q", "u", "o", "t", "a">>
SdkBlocked ==
    <<"R", "e", "s", "p", "o", "n", "s", "e", " ", "w", "a", "s", " ", "b", "l", "o", "c", "k",
      "e", "d", " ", "d", "u", "e", " ", "t", "o", " ", "S", "A", "F", "E", "T", "Y">>
SdkFetchFailed ==
    <<"f", "e", "t", "c", "h", " ", "f", "a", "i", "l", "e", "d">>
SdkOverloaded ==
    <<"T", "h", "e", " ", "m", "o", "d", "e", "l", " ", "i", "s", " ", "o", "v", "e", "r", "l",
      "o", "a", "d", "e", "d">>
ProseBefore ==
    <<"H", "e", "r", "e", " ", "i", "s", " ", "t", "h", "e", " ", "c", "o", "d", "e", ":",
      "\n">>
ProseAfter ==
    <<"\n", "H", "o", "p", "e", " ", "t", "h", "i", "s", " ", "h", "e", "l", "p", "s", "!">>
FenceOpenJson ==
    <<Backtick, Backtick, Backtick, "j", "s", "o", "n", "\n">>
FenceOpenPlain ==
    <<Backtick, Backtick, Backtick, "\n">>
FenceCloseLine ==
    <<"\n", Backtick, Backtick, Backtick>>
SqlPlain ==
    <<"C", "R", "E", "A", "T", "E", " ", "T", "A", "B", "L", "E", " ", "t", "(", "i", "d", " ",
      "I", "N", "T", ")", ";">>
SqlWithBraces ==
    <<"-", "-", " ", "{", "a", "}", "\n", "S", "E", "L", "E", "C", "T", " ", "'", "}", "'",
      ";">>
SqlWithFence ==
    <<"-", "-", " ", Backtick, Backtick, Backtick, "s", "q", "l", "\n", "S", "E", "L", "E", "C", "T", " ",
      "1", ";">>
SqlOnlyFence ==
    <<Backtick, Backtick, Backtick>>
RoutePlain ==
    <<"m", "o", "d", "u", "l", "e", ".", "e", "x", "p", "o", "r", "t", "s", "=", "{", "}">>
RouteWithQuotes ==
    <<"r", "e", "s", ".", "j", "s", "o", "n", "(", "{", "\"", "o", "k", "\"", ":", "t", "r",
      "u", "e", "}", ")">>
RouteWithFence ==
    <<"/", "*", " ", Backtick, Backtick, Backtick, " ", "*", "/", " ", "x", "\\", "y">>
ReplyBlocked ==
    <<"b", "l", "o", "c", "k", "e", "d">>
ReplyQuotaText ==
    <<"q", "u", "o", "t", "a", " ", "e", "x", "c", "e", "e", "d", "e", "d">>
ReplySorry ==
    <<"S", "o", "r", "r", "y", ",", " ", "I", " ", "c", "a", "n", "n", "o", "t", " ", "h", "e",
      "l", "p", " ", "w", "i", "t", "h", " ", "t", "h", "a", "t", " ", "r", "e", "q", "u", "e",
      "s", "t", ".">>
ReplyEmptyObject ==
    <<"{", "}">>
ReplyNull ==
    <<"n", "u", "l", "l">>
ReplyMissingRoute ==
    <<"{", "\"", "s", "q", "l", "S", "c", "h", "e", "m", "a", "\"", ":", "\"", "A", "\"", "}">>
ReplyEmptySchema ==
    <<"{", "\"", "s", "q", "l", "S", "c", "h", "e", "m", "a", "\"", ":", "\"", "\"", ",", "\"",
      "n", "o", "d", "e", "R", "o", "u", "t", "e", "\"", ":", "\"", "B", "\"", "}">>
ReplyNullRoute ==
    <<"{", "\"", "s", "q", "l", "S", "c", "h", "e", "m", "a", "\"", ":", "\"", "A", "\"", ",",
      "\"", "n", "o", "d", "e", "R", "o", "u", "t", "e", "\"", ":", "n", "u", "l", "l", "}">>
ReplyEmptyObjects ==
    <<"{", "\"", "s", "q", "l", "S", "c", "h", "e", "m", "a", "\"", ":", "{", "}", ",", "\"",
      "n", "o", "d", "e", "R", "o", "u", "t", "e", "\"", ":", "{", "}", "}">>
ReplyBareWord ==
    <<"{", "\"", "s", "q", "l", "S", "c", "h", "e", "m", "a", "\"", ":", " ", "q", "u", "o",
      "t", "a", "}">>
ReplyTruncated ==
    <<"{", "\"", "s", "q", "l", "S", "c", "h", "e", "m", "a", "\"", ":", "\"", "C", "R", "E",
      "A", "T", "E">>
ReplyReversedBraces ==
    <<"}", " ", "o", "o", "p", "s", " ", "{">>
ReplyPlainString ==
    <<"\"", "A", "P", "I", " ", "k", "e", "y", "\"">>

\* process.env.GEMINI_API_KEY set or not; genAI is constructed at module load
\* only when the key is set, and the constructor may throw (genAI undefined)
GenEnvs ==
    { e \in [apiKey : BOOLEAN, genAI : BOOLEAN, engine : {"legacy", "context"}] :
        e.genAI => e.apiKey }

\* error.message of a rejected generateContent / a throwing response.text();
\* <<>> is an Error without a message
SdkMessages ==
    { SdkKeyInvalid, SdkKeyInvalidCode, SdkRateLimit, SdkQuotaCode, SdkQuotaWords,
      SdkBlocked, SdkFetchFailed, SdkOverloaded, <<>> }

\* JSON.stringify of a string
RECURSIVE EscapeJson(_)
EscapeJson(s) ==
    IF s = <<>> THEN <<>>
    ELSE LET c == Head(s)
             e == CASE c = "\"" -> <<"\\", "\"">>
                    [] c = "\\" -> <<"\\", "\\">>
                    [] c = "\n" -> <<"\\", "n">>
                    [] c = "\t" -> <<"\\", "t">>
                    [] c = "\r" -> <<"\\", "r">>
                    [] OTHER -> <<c>>
         IN  e \o EscapeJson(Tail(s))
JsonString(s) == Quoted(EscapeJson(s))

\* the two-key object the prompt asks for
TwoKeyObject(a, b) ==
    <<"{">> \o JsonString(KeySqlSchema) \o <<":", " ">> \o JsonString(a) \o <<",", "\n", " ">>
        \o JsonString(KeyNodeRoute) \o <<":", " ">> \o JsonString(b) \o <<"}">>

SqlPayloads == {SqlPlain, SqlWithBraces, SqlWithFence, SqlOnlyFence}
RoutePayloads == {RoutePlain, RouteWithQuotes, RouteWithFence}

\* a reply that wraps the object in a markdown fence, with or without prose
FencedReplies ==
    { [text   |-> before \o open \o TwoKeyObject(a, b) \o FenceCloseLine \o after,
       source |-> [fenced |-> TRUE, sqlSchema |-> a, nodeRoute |-> b]] :
        before \in {<<>>, ProseBefore}, open \in {FenceOpenJson, FenceOpenPlain},
        a \in SqlPayloads, b \in RoutePayloads, after \in {<<>>, ProseAfter} }

NoSource == [fenced |-> FALSE]

\* replies that are not the object asked for
OtherReplies ==
    { [text |-> t, source |-> NoSource] :
        t \in { ReplyBlocked, ReplyQuotaText, ReplySorry, ReplyEmptyObject, ReplyNull,
                ReplyMissingRoute, ReplyEmptySchema, ReplyNullRoute, ReplyEmptyObjects,
                ReplyBareWord,
                ReplyTruncated, ReplyReversedBraces, ReplyPlainString, <<>> } }

Rejected(m) == [kind |-> "reject", message |-> m]
TextThrows(m) == [kind |-> "textThrows", message |-> m]
Reply(t) == [kind |-> "reply", text |-> t]

GenInit ==
    /\ genEnv \in GenEnvs
    /\ \/ /\ genOutcome \in {Rejected(m) : m \in SdkMessages} \cup {TextThrows(SdkBlocked)}
          /\ genSource = NoSource
       \/ \E r \in FencedReplies \cup OtherReplies :
             /\ genOutcome = Reply(r.text)
             /\ genSource = r.source
    /\ genResult = [kind |-> "none"]
    /\ genPc = "ready"

GenIdle ==
    /\ genEnv = [apiKey |-> FALSE, genAI |-> FALSE, engine |-> "legacy"]
    /\ genOutcome = Rejected(<<>>)
    /\ genSource = NoSource
    /\ genResult = [kind |-> "none"]
    /\ genPc = "off"

\* one call of generateBackendCode(htmlString)
Generate ==
    /\ genPc = "ready"
    /\ genResult' = generateBackendCode(genEnv, genOutcome)
    /\ genPc' = "done"
    /\ UNCHANGED <<genEnv, genOutcome, genSource>>
    /\ GenOnly

-----------------------------------------------------------------------------
(* new URL(input) of the runtime (WHATWG URL parsing without a base): does *)
(* the constructor throw?                                                  *)

IsAlpha(c) == c \in UpperSet \cup LowerSet
IsSchemeChar(c) == IsAlpha(c) \/ c \in DigitSet \/ c \in {"+", "-", "."}
SpecialSchemes == {SchemeHttp, SchemeHttps, SchemeFtp, SchemeWs, SchemeWss}
ForbiddenHostChars == {" ", "<", ">", "[", "]", "^", "|", "%", "\"", "\n", "\t"}

LowerText(s) == [k \in 1..Len(s) |-> Lower(s[k])]

\* the host of a special URL: what follows the slashes, up to the path, query
\* or fragment, without credentials and port
AuthorityOf(rest) ==
    LET starts == {k \in 1..Len(rest) : rest[k] \notin {"/", "\\"}}
        from   == IF starts = {} THEN Len(rest) + 1 ELSE Min(starts)
        ends   == {k \in from..Len(rest) : rest[k] \in {"/", "\\", "?", "#"}}
        to     == IF ends = {} THEN Len(rest) ELSE Min(ends) - 1
    IN  Slice(rest, from, to)

HostInvalid(authority) ==
    LET at       == LastIndexOf(authority, <<"@">>)
        hostport == Slice(authority, at + 1, Len(authority))
        colon    == IndexOf(hostport, <<":">>)
        host     == IF colon = 0 THEN hostport ELSE Slice(hostport, 1, colon - 1)
        port     == IF colon = 0 THEN <<>> ELSE Slice(hostport, colon + 1, Len(hostport))
    IN  \/ host = <<>>
        \/ \E k \in 1..Len(host) : host[k] \in ForbiddenHostChars
        \/ \E k \in 1..Len(port) : port[k] \notin DigitSet

\* a validation that accepts whatever has a scheme separator
ThrowsWithoutColon(input) == IndexOf(input, <<":">>) = 0

NewUrlThrows(input) ==
    LET s     == Trim(input)
        colon == IndexOf(s, <<":">>)
    IN  IF s = <<>> \/ ~IsAlpha(s[1]) THEN TRUE
        ELSE IF colon = 0 \/ \E k \in 1..(colon - 1) : ~IsSchemeChar(s[k]) THEN TRUE
        ELSE IF LowerText(Slice(s, 1, colon - 1)) \notin SpecialSchemes THEN FALSE
        ELSE HostInvalid(AuthorityOf(Slice(s, colon + 1, Len(s))))

-----------------------------------------------------------------------------
(* The /api/clone handler (server.js) and what its two stages deliver.     *)

PupLaunchFailed ==
    <<"F", "a", "i", "l", "e", "d", " ", "t", "o", " ", "l", "a", "u", "n", "c", "h", " ", "t",
      "h", "e", " ", "b", "r", "o", "w", "s", "e", "r", " ", "p", "r", "o", "c", "e", "s", "s",
      "!">>
PupNavTimeout ==
    <<"N", "a", "v", "i", "g", "a", "t", "i", "o", "n", " ", "t", "i", "m", "e", "o", "u", "t",
      " ", "o", "f", " ", "4", "5", "0", "0", "0", " ", "m", "s", " ", "e", "x", "c", "e", "e",
      "d", "e", "d">>
PupNewPageFailed ==
    <<"P", "r", "o", "t", "o", "c", "o", "l", " ", "e", "r", "r", "o", "r", " ", "(", "T", "a",
      "r", "g", "e", "t", ".", "c", "r", "e", "a", "t", "e", "T", "a", "r", "g", "e", "t", ")",
      ":", " ", "T", "a", "r", "g", "e", "t", " ", "c", "l", "o", "s", "e", "d">>
PupEvalFailed ==
    <<"E", "x", "e", "c", "u", "t", "i", "o", "n", " ", "c", "o", "n", "t", "e", "x", "t", " ",
      "w", "a", "s", " ", "d", "e", "s", "t", "r", "o", "y", "e", "d">>
PupCloseFailed ==
    <<"P", "r", "o", "t", "o", "c", "o", "l", " ", "e", "r", "r", "o", "r", ":", " ", "C", "o",
      "n", "n", "e", "c", "t", "i", "o", "n", " ", "c", "l", "o", "s", "e", "d">>
UrlNotAUrl ==
    <<"n", "o", "t", " ", "a", " ", "u", "r", "l">>
UrlNoScheme ==
    <<"e", "x", "a", "m", "p", "l", "e", ".", "c", "o", "m">>
UrlHttpOnly ==
    <<"h", "t", "t", "p", ":", "/", "/">>
UrlBlank ==
    <<" ">>
UrlA ==
    <<"h", "t", "t", "p", "s", ":", "/", "/", "a", ".", "c", "o", "m">>
UrlB ==
    <<"f", "t", "p", ":", "/", "/", "b", ".", "o", "r", "g", "/", "x">>
PageA ==
    <<"<", "d", "i", "v", " ", "c", "l", "a", "s", "s", "=", "\"", "b", "o", "x", "\"", ">",
      "H", "i", "<", "/", "d", "i", "v", ">", "\n", "<", "s", "c", "r", "i", "p", "t", ">",
      "t", "r", "a", "c", "k", "(", ")", "<", "/", "s", "c", "r", "i", "p", "t", ">">>
PageB ==
    <<"<", "p", ">", "B", "<", "/", "p", ">">>
CssA ==
    <<".", "b", "o", "x", "{", "c", "o", "l", "o", "r", ":", "r", "e", "d", "}", "\n">>
CssB ==
    <<>>

\* req.body.url: not given, or a string
Absent == [t |-> "undefined"]
UrlInputs ==
    {Absent} \cup {JStr(u) : u \in {<<>>, UrlBlank, UrlNotAUrl, UrlNoScheme, UrlHttpOnly,
                                    UrlA, UrlB}}

\* what the browser renders for a URL: the serialized document and its CSS
PageOf(url) ==
    IF url = UrlA THEN [html |-> PageA, css |-> CssA] ELSE [html |-> PageB, css |-> CssB]

\* how a scrapeWebsite call fails: the message of the error it caught
ScrapeFailures == {PupLaunchFailed, PupNavTimeout, PupEvalFailed}

\* scrapeWebsite(url) as its caller sees it: the sanitized page, or the
\* wrapped error
ScrapeReturns(page) == [kind |-> "return", html |-> cleanHTML(page.html), css |-> page.css]
ScrapeThrows(msg) == [kind |-> "throw", message |-> MsgScrapePrefix \o msg]

\* what the hosted model does for a request of the server
ServerOutcomes ==
    { Reply(FenceOpenJson \o TwoKeyObject(SqlPlain, RoutePlain) \o FenceCloseLine),
      Reply(ReplyBlocked), Reply(ReplyMissingRoute),
      Rejected(SdkRateLimit), Rejected(SdkQuotaCode), Rejected(SdkKeyInvalid),
      TextThrows(SdkBlocked), Rejected(SdkFetchFailed) }

NodeEnvs == {"development", "production", "unset"}

ServerEnvs ==
    { e \in [apiKey : BOOLEAN, genAI : BOOLEAN, engine : {"legacy", "context"},
             nodeEnv : NodeEnvs] : e.genAI => e.apiKey }

MaxRequests == 2
Requests == 1..MaxRequests

NoLocals == [t |-> "undefined"]

\* res.status(400).json({error, message})
BadRequest(error, message) == [status |-> 400, error |-> error, message |-> message]

\* res.json({success: true, data: {...}}); processingTime and timestamp are
\* readings of the clock and are left out
Success(url, html, css, code) ==
    [status |-> 200, success |-> TRUE,
     data |-> [html |-> html, css |-> css,
               sqlSchema |-> code.sqlSchema, nodeRoute |-> code.nodeRoute,
               metadata |-> [sourceUrl |-> url]]]

\* an envelope that shows the stack whenever the mode is not production
FailureOutsideProduction(env, message) ==
    [status |-> 500, success |-> FALSE,
     error |-> IF message # <<>> THEN message ELSE ErrInternal,
     message |-> MsgCloneFailed,
     details |-> IF env.nodeEnv # "production" THEN [stackOf |-> message] ELSE Absent]

\* res.status(500).json({success: false, error, message, details})
Failure(env, message) ==
    [status |-> 500, success |-> FALSE,
     error |-> IF message # <<>> THEN message ELSE ErrInternal,
     message |-> MsgCloneFailed,
     details |-> IF env.nodeEnv = "development" THEN [stackOf |-> message] ELSE Absent]

\* the final error middleware: res.status(500).json({error, message})
ErrUnhandled ==
    <<"I", "n", "t", "e", "r", "n", "a", "l", " ", "S", "e", "r", "v", "e", "r", " ", "E", "r",
      "r", "o", "r">>
ErrorHandler(message) == [status |-> 500, error |-> ErrUnhandled, message |-> message]

\* the three pure computations of a request, tabulated over the inputs of
\* the model (merging with the empty function makes each table explicit, so
\* that every entry is computed once)
UrlThrows == [u \in UrlInputs \ {Absent} |-> NewUrlThrows(u.s)] @@ <<>>
Scraped == [u \in {x.s : x \in UrlInputs \ {Absent}} |-> ScrapeReturns(PageOf(u))] @@ <<>>
Generated ==
    [e \in ServerEnvs, o \in ServerOutcomes |-> generateBackendCode(e, o)] @@ <<>>

SrvInit ==
    /\ srvEnv \in ServerEnvs
    /\ req = [r \in Requests |->
                 [pc |-> "idle", url |-> Absent, page |-> NoLocals, reply |-> NoLocals]]
    /\ sent = [r \in Requests |-> <<>>]
    /\ calls = [r \in Requests |-> [scrape |-> 0, generate |-> 0, model |-> 0]]

SrvIdle ==
    /\ srvEnv = [apiKey |-> FALSE, genAI |-> FALSE, engine |-> "legacy", nodeEnv |-> "unset"]
    /\ req = <<>>
    /\ sent = <<>>
    /\ calls = <<>>

\* a url kept in one binding shared by the requests in flight
UrlOfInFlight(r) ==
    req[Min({q \in Requests : req[q].pc \in {"scraping", "generating"}} \cup {r})].url

\* the url bound by "const { url } = req.body" in request r
UrlOf(r) == req[r].url

\* the model is called only past the two configuration checks
ModelCalled(env) == env.apiKey /\ env.genAI

\* POST /api/clone arrives: validation, then the handler waits for scrapeWebsite
Receive(r) ==
    /\ req[r].pc = "idle"
    /\ \E url \in UrlInputs :
          IF ~Truthy(url) THEN
              /\ req' = [req EXCEPT ![r].pc = "done", ![r].url = url]
              /\ sent' = [sent EXCEPT ![r] = Append(@, BadRequest(ErrUrlRequired, MsgUrlRequired))]
              /\ UNCHANGED calls
          ELSE IF UrlThrows[url] THEN
              /\ req' = [req EXCEPT ![r].pc = "done", ![r].url = url]
              /\ sent' = [sent EXCEPT ![r] = Append(@, BadRequest(ErrInvalidUrl, MsgInvalidUrl))]
              /\ UNCHANGED calls
          ELSE
              /\ req' = [req EXCEPT ![r].pc = "scraping", ![r].url = url]
              /\ calls' = [calls EXCEPT ![r].scrape = @ + 1]
              /\ UNCHANGED sent
    /\ UNCHANGED srvEnv
    /\ SrvOnly

\* scrapeWebsite returns: html and css are bound, generateBackendCode(html) is
\* called and the handler waits for it
ScrapeReturn(r) ==
    /\ req[r].pc = "scraping"
    /\ LET got == Scraped[UrlOf(r).s]
       IN  req' = [req EXCEPT ![r].pc = "generating",
                              ![r].page = [html |-> got.html, css |-> got.css]]
    /\ calls' = [calls EXCEPT ![r].generate = @ + 1,
                              ![r].model = IF ModelCalled(srvEnv) THEN @ + 1 ELSE @]
    /\ UNCHANGED <<srvEnv, sent>>
    /\ SrvOnly

\* a handler that swallows the render failure and goes on to generate from an
\* empty page
ScrapeThrowThenGenerate(r) ==
    /\ req[r].pc = "scraping"
    /\ req' = [req EXCEPT ![r].pc = "generating",
                          ![r].page = [html |-> <<>>, css |-> <<>>]]
    /\ calls' = [calls EXCEPT ![r].generate = @ + 1,
                              ![r].model = IF ModelCalled(srvEnv) THEN @ + 1 ELSE @]
    /\ UNCHANGED <<srvEnv, sent>>
    /\ SrvOnly

\* scrapeWebsite throws: the catch block answers 500
ScrapeThrow(r) ==
    /\ req[r].pc = "scraping"
    /\ \E msg \in ScrapeFailures :
          sent' = [sent EXCEPT ![r] = Append(@, Failure(srvEnv, ScrapeThrows(msg).message))]
    /\ req' = [req EXCEPT ![r].pc = "done"]
    /\ UNCHANGED <<srvEnv, calls>>
    /\ SrvOnly

\* a handler whose generation step is outside its try block: what
\* generateBackendCode throws goes to the error middleware
GenerateSettleUnguarded(r) ==
    /\ req[r].pc = "generating"
    /\ \E outcome \in ServerOutcomes :
          LET got == Generated[srvEnv, outcome]
          IN  /\ sent' = [sent EXCEPT ![r] = Append(@,
                            IF got.kind = "return"
                            THEN Success(UrlOf(r).s, req[r].page.html, req[r].page.css,
                                         got.value)
                            ELSE ErrorHandler(got.message))]
              /\ req' = [req EXCEPT ![r].pc = "done", ![r].page = NoLocals,
                                    ![r].reply = outcome]
    /\ UNCHANGED <<srvEnv, calls>>
    /\ SrvOnly

\* generateBackendCode settles (reply: what the hosted model did for this
\* request): the success envelope, or the catch block
GenerateSettle(r) ==
    /\ req[r].pc = "generating"
    /\ \E outcome \in ServerOutcomes :
          LET got == Generated[srvEnv, outcome]
          IN  /\ sent' = [sent EXCEPT ![r] = Append(@,
                            IF got.kind = "return"
                            THEN Success(UrlOf(r).s, req[r].page.html, req[r].page.css,
                                         got.value)
                            ELSE Failure(srvEnv, got.message))]
              /\ req' = [req EXCEPT ![r].pc = "done", ![r].page = NoLocals,
                                    ![r].reply = outcome]
    /\ UNCHANGED <<srvEnv, calls>>
    /\ SrvOnly

SrvNext ==
    \E r \in Requests : Receive(r) \/ ScrapeReturn(r) \/ ScrapeThrow(r) \/ GenerateSettle(r)


-----------------------------------------------------------------------------
(* scrapeWebsite (scraper.js), await by await, for a sequence of calls.    *)

MaxCalls == 3

NoCompletion == [kind |-> "none"]

\* const distance = 100: the pixels scrolled per tick of the timer
distance == 100

\* how often a page of finite content grows while it is scrolled
MaxGrowths == 2

\* no auto-scroll loop is running
NoPage == [ahead |-> 0, odd |-> FALSE, growth |-> 0, left |-> 0, endless |-> FALSE]

\* a page when the timer starts: ahead is document.body.scrollHeight minus
\* totalHeight (the loop compares nothing else), odd whether totalHeight is an
\* odd multiple of distance (it is 0 at the start), growth the pixels the page
\* adds to its height when it is scrolled (lazy loading), left how often it
\* still does (endless: a feed that loads more on every scroll)
Pages ==
    { p \in [ahead : {distance, 250}, odd : {FALSE}, growth : {0, 50, distance},
              left : {0, MaxGrowths}, endless : BOOLEAN] :
        /\ p.endless => p.left = 0
        /\ (p.growth = 0) <=> (p.left = 0 /\ ~p.endless) }

ScrInit ==
    /\ scrCalls = 0
    /\ scrPc = "idle"
    /\ scrUrl = <<>>
    /\ scrBrowser = 0
    /\ scrCloses = 0
    /\ scrPending = NoCompletion
    /\ scrResult = NoCompletion
    /\ scrOpen = {}
    /\ scrPage = NoPage

ScrIdle ==
    /\ scrCalls = 0
    /\ scrPc = "off"
    /\ scrUrl = <<>>
    /\ scrBrowser = 0
    /\ scrCloses = 0
    /\ scrPending = NoCompletion
    /\ scrResult = NoCompletion
    /\ scrOpen = {}
    /\ scrPage = NoPage

\* catch (error) { throw new Error(`Failed to scrape website: ${error.message}`) }:
\* the wrapped error waits for the finally block
Caught(msg) ==
    /\ scrPending' = ScrapeThrows(msg)
    /\ scrPc' = "finally"

\* an await of the try block that neither launches nor extracts: it resolves
\* and the call moves on, or it rejects and the catch block runs
Await(at, next, failure) ==
    /\ scrPc = at
    /\ \/ scrPc' = next /\ UNCHANGED scrPending
       \/ Caught(failure)
    /\ UNCHANGED <<scrCalls, scrUrl, scrBrowser, scrCloses, scrResult, scrOpen, scrPage>>
    /\ ScrOnly

\* scrapeWebsite(url) is called: let browser = null
ScrapeCall ==
    /\ scrPc \in {"idle", "returned", "thrown"}
    /\ scrCalls < MaxCalls
    /\ scrCalls' = scrCalls + 1
    /\ scrUrl' \in {UrlA, UrlB}
    /\ scrBrowser' = 0
    /\ scrCloses' = 0
    /\ scrPending' = NoCompletion
    /\ scrResult' = NoCompletion
    /\ scrPc' = "launch"
    /\ UNCHANGED <<scrOpen, scrPage>>
    /\ ScrOnly

\* browser = await puppeteer.launch({...})
Launch ==
    /\ scrPc = "launch"
    /\ \/ /\ scrBrowser' = scrCalls
          /\ scrOpen' = scrOpen \cup {scrCalls}
          /\ scrPc' = "newPage"
          /\ UNCHANGED scrPending
       \/ /\ Caught(PupLaunchFailed)
          /\ UNCHANGED <<scrBrowser, scrOpen>>
    /\ UNCHANGED <<scrCalls, scrUrl, scrCloses, scrResult, scrPage>>
    /\ ScrOnly

\* const page = await browser.newPage()
NewPage == Await("newPage", "setViewport", PupNewPageFailed)
\* await page.setViewport({...})
SetViewport == Await("setViewport", "setUserAgent", PupNewPageFailed)
\* await page.setUserAgent(...)
SetUserAgent == Await("setUserAgent", "goto", PupNewPageFailed)
\* await page.goto(url, {waitUntil: 'networkidle0', timeout: 45000})
Goto == Await("goto", "settle", PupNavTimeout)
\* await page.waitForTimeout(5000)
WaitForContent == Await("settle", "scroll", PupEvalFailed)
\* await page.evaluate(async () => { ...scroll to load lazy-loaded images... }):
\* the function starts in the page (totalHeight = 0, the timer is set), or the
\* evaluation is rejected
AutoScroll ==
    /\ scrPc = "scroll"
    /\ \/ /\ scrPage' \in Pages
          /\ scrPc' = "scrolling"
          /\ UNCHANGED scrPending
       \/ /\ Caught(PupEvalFailed)
          /\ UNCHANGED scrPage
    /\ UNCHANGED <<scrCalls, scrUrl, scrBrowser, scrCloses, scrResult, scrOpen>>
    /\ ScrOnly

\* if (totalHeight >= scrollHeight), with scrollHeight read before this
\* tick's scrollBy and totalHeight after its += distance
ReachedBottom(page) == page.ahead <= distance

\* what the tick's scrollBy makes of the page: it grows if it has more to load
Scrolled(page) ==
    IF page.endless
        THEN [page EXCEPT !.ahead = @ - distance + page.growth, !.odd = ~@]
    ELSE IF page.left > 0
        THEN [page EXCEPT !.ahead = @ - distance + page.growth, !.odd = ~@, !.left = @ - 1]
    ELSE [page EXCEPT !.ahead = @ - distance, !.odd = ~@]

\* one tick of setInterval(..., 100): scroll, add, compare; at the bottom the
\* timer is cleared and the promise, and with it the evaluation, resolves
ScrollTick ==
    /\ scrPc = "scrolling"
    /\ IF ReachedBottom(scrPage)
          THEN scrPc' = "settleAgain" /\ scrPage' = NoPage
          ELSE scrPc' = scrPc /\ scrPage' = Scrolled(scrPage)
    /\ UNCHANGED <<scrCalls, scrUrl, scrBrowser, scrCloses, scrPending, scrResult, scrOpen>>
    /\ ScrOnly

\* the evaluation is rejected while the loop runs (the execution context is
\* destroyed, or the library gives up waiting for the protocol reply)
ScrollInterrupted ==
    /\ scrPc = "scrolling"
    /\ Caught(PupEvalFailed)
    /\ scrPage' = NoPage
    /\ UNCHANGED <<scrCalls, scrUrl, scrBrowser, scrCloses, scrResult, scrOpen>>
    /\ ScrOnly
\* await page.waitForTimeout(2000)
WaitAfterScroll == Await("settleAgain", "extract", PupEvalFailed)

\* const extractedData = await page.evaluate(...); cleanHTML; return {html, css}
Extract ==
    /\ scrPc = "extract"
    /\ \/ /\ scrPending' = Scraped[scrUrl]
          /\ scrPc' = "finally"
       \/ Caught(PupEvalFailed)
    /\ UNCHANGED <<scrCalls, scrUrl, scrBrowser, scrCloses, scrResult, scrOpen, scrPage>>
    /\ ScrOnly

\* a finally block that releases the browser only when the try block returned
CloseOnSuccess(browser, pending) == browser # 0 /\ pending.kind = "return"

\* finally { if (browser) ... }
ShouldClose(browser, pending) == browser # 0

\* await browser.close() (scrOpen: the launched browsers on which close() has
\* not been called); when close itself rejects, its error replaces the pending
\* completion
CloseBrowser ==
    /\ scrPc = "finally"
    /\ ShouldClose(scrBrowser, scrPending)
    /\ scrCloses' = scrCloses + 1
    /\ scrOpen' = scrOpen \ {scrBrowser}
    /\ \/ scrResult' = scrPending
       \/ scrResult' = [kind |-> "throw", message |-> PupCloseFailed]
    /\ scrPc' = IF scrResult'.kind = "return" THEN "returned" ELSE "thrown"
    /\ scrPending' = NoCompletion
    /\ UNCHANGED <<scrCalls, scrUrl, scrBrowser, scrPage>>
    /\ ScrOnly

\* the finally block with nothing to close: the pending completion is delivered
LeaveWithoutBrowser ==
    /\ scrPc = "finally"
    /\ ~ShouldClose(scrBrowser, scrPending)
    /\ scrResult' = scrPending
    /\ scrPc' = IF scrPending.kind = "return" THEN "returned" ELSE "thrown"
    /\ scrPending' = NoCompletion
    /\ UNCHANGED <<scrCalls, scrUrl, scrBrowser, scrCloses, scrOpen, scrPage>>
    /\ ScrOnly

ScrNext ==
    \/ ScrapeCall \/ Launch \/ NewPage \/ SetViewport \/ SetUserAgent \/ Goto
    \/ WaitForContent \/ AutoScroll \/ ScrollTick \/ ScrollInterrupted
    \/ WaitAfterScroll \/ Extract
    \/ CloseBrowser \/ LeaveWithoutBrowser

-----------------------------------------------------------------------------
(* The specifications: one per component, the other components idle.       *)

GenSpecInit == GenInit /\ CleanIdle /\ SrvIdle /\ ScrIdle
SpecGen == GenSpecInit /\ [][Generate]_vars

CleanSpecInit == CleanInit /\ GenIdle /\ SrvIdle /\ ScrIdle
SpecClean == CleanSpecInit /\ [][CleanNext]_vars

ScrSpecInit == ScrInit /\ CleanIdle /\ GenIdle /\ SrvIdle
SpecScrape == ScrSpecInit /\ [][ScrNext]_vars

\* every await of a call settles, one way or the other, and the timer keeps
\* ticking; nothing promises that a running evaluation is interrupted, or
\* that another call follows
ScrFairness ==
    /\ WF_vars(Launch) /\ WF_vars(NewPage) /\ WF_vars(SetViewport)
    /\ WF_vars(SetUserAgent) /\ WF_vars(Goto) /\ WF_vars(WaitForContent)
    /\ WF_vars(AutoScroll) /\ WF_vars(ScrollTick) /\ WF_vars(WaitAfterScroll)
    /\ WF_vars(Extract) /\ WF_vars(CloseBrowser) /\ WF_vars(LeaveWithoutBrowser)
SpecScrapeLive == ScrSpecInit /\ [][ScrNext]_vars /\ ScrFairness

Init == SrvInit /\ CleanIdle /\ GenIdle /\ ScrIdle
Next == SrvNext
Spec == Init /\ [][Next]_vars

-----------------------------------------------------------------------------
(* Properties of generateBackendCode, checked under SpecGen.               *)

\* C1: generateBackendCode never raises past its boundary: whenever its try
\* block fails (missing client, rejected model call with any message,
\* unparseable reply, missing field) the finished call has returned the pair
\* of getFallbackCode, and it has never thrown.
C1_AlwaysFallback ==
    genPc = "done" =>
        /\ genResult.kind = "return"
        /\ GenerateTry(genEnv, genOutcome).kind = "throw"
               => genResult.value = getFallbackCode

\* C3: with no GEMINI_API_KEY configured the finished call has not invoked
\* the model and has returned the fallback pair instead of throwing.
C3_NoKeyFallsBack ==
    (genPc = "done" /\ ~genEnv.apiKey) =>
        /\ ~genResult.invoked
        /\ genResult.kind = "return"
        /\ genResult.value = getFallbackCode

\* the reply does not parse, or parses to an object lacking a non-empty
\* sqlSchema or nodeRoute
Unusable(parsed) ==
    \/ ~parsed.ok
    \/ /\ parsed.v.t = "obj"
       /\ \/ ~Truthy(GetProperty(parsed.v, KeySqlSchema))
          \/ ~Truthy(GetProperty(parsed.v, KeyNodeRoute))

\* C6: when the model was called and its reply is non-parseable text, or an
\* object in which sqlSchema or nodeRoute is absent or empty, the finished
\* call has returned the fallback pair, whatever the reply text contains.
C6_BadReplyFallsBack ==
    ( /\ genPc = "done"
      /\ ModelCalled(genEnv)
      /\ genOutcome.kind = "reply"
      /\ Unusable(JSONParse(CleanReply(genOutcome.text))) )
        => genResult = Returned(getFallbackCode, TRUE)

\* C7: when the model was called and its reply is the two-key object
\* {sqlSchema: A, nodeRoute: B} in a markdown fence, with or without
\* brace-free prose around it, the finished call has returned exactly A and B.
C7_FencedReplyUnaltered ==
    (genPc = "done" /\ ModelCalled(genEnv) /\ genSource.fenced) =>
        genResult = Returned([sqlSchema |-> JStr(genSource.sqlSchema),
                              nodeRoute |-> JStr(genSource.nodeRoute)], TRUE)

-----------------------------------------------------------------------------
(* Properties of the /api/clone handler, checked under Spec.               *)

NoCalls == [scrape |-> 0, generate |-> 0, model |-> 0]

\* C2: a request whose render succeeded and whose generation failed, of
\* whatever class, has been answered with the 200 success envelope carrying
\* the fallback pair, never with a 500.
C2_GenerationFailureIs200 ==
    \A r \in Requests :
        ( /\ req[r].pc = "done"
          /\ calls[r].generate = 1
          /\ GenerateTry(srvEnv, req[r].reply).kind = "throw" )
            => /\ Len(sent[r]) = 1
               /\ sent[r][1].status = 200
               /\ sent[r][1].data.sqlSchema = getFallbackCode.sqlSchema
               /\ sent[r][1].data.nodeRoute = getFallbackCode.nodeRoute

\* a url value that is a string without the shape of a URL
NonUrlShaped == {<<>>, UrlBlank, UrlNotAUrl, UrlNoScheme, UrlHttpOnly}

\* request r was received with a url value among the strings of S
ReceivedWith(r, S) ==
    req[r].pc # "idle" /\ req[r].url.t = "str" /\ req[r].url.s \in S

\* the handler answered request r with this one response and called neither
\* scrapeWebsite nor generateBackendCode for it
RejectedWith(r, response) ==
    req[r].pc = "done" /\ sent[r] = <<response>> /\ calls[r] = NoCalls

\* C5 as stated: every request whose url is a non-URL-shaped string has got
\* 400 "Invalid URL" and neither stage of the pipeline was invoked for it.
C5_NonUrlIsInvalidUrl ==
    \A r \in Requests :
        ReceivedWith(r, NonUrlShaped)
            => RejectedWith(r, BadRequest(ErrInvalidUrl, MsgInvalidUrl))

\* C5 (amended): every request whose url is a non-empty non-URL-shaped string
\* has got 400 "Invalid URL", a request whose url is the empty string has got
\* 400 "URL is required", and in both cases neither scrapeWebsite nor
\* generateBackendCode was invoked for the request.
C5_NonUrlIsRejected ==
    \A r \in Requests :
        /\ ReceivedWith(r, NonUrlShaped \ {<<>>})
               => RejectedWith(r, BadRequest(ErrInvalidUrl, MsgInvalidUrl))
        /\ ReceivedWith(r, {<<>>})
               => RejectedWith(r, BadRequest(ErrUrlRequired, MsgUrlRequired))

\* both answers of C5 have been given: a malformed url to one request, the
\* empty string to the other
C5_Witness ==
    /\ ReceivedWith(1, {UrlHttpOnly})
    /\ RejectedWith(1, BadRequest(ErrInvalidUrl, MsgInvalidUrl))
    /\ ReceivedWith(2, {<<>>})
    /\ RejectedWith(2, BadRequest(ErrUrlRequired, MsgUrlRequired))

\* the success envelope holds what was produced for request r itself
OwnData(r, response) ==
    /\ response.data.metadata.sourceUrl = req[r].url.s
    /\ response.data.html = Scraped[req[r].url.s].html
    /\ response.data.css = Scraped[req[r].url.s].css
    /\ response.data.sqlSchema = Generated[srvEnv, req[r].reply].value.sqlSchema
    /\ response.data.nodeRoute = Generated[srvEnv, req[r].reply].value.nodeRoute

\* what a request in flight holds is what was rendered for its own url
OwnPage(r) ==
    req[r].pc = "generating" =>
        /\ req[r].page.html = Scraped[req[r].url.s].html
        /\ req[r].page.css = Scraped[req[r].url.s].css

EachResponseIsOwn ==
    \A r \in Requests :
        /\ OwnPage(r)
        /\ \A k \in 1..Len(sent[r]) :
               sent[r][k].status = 200 => (req[r].pc = "done" /\ OwnData(r, sent[r][k]))

\* a step of one request leaves every other request's bindings, responses and
\* call counts, and the configuration shared by all requests, as they were
OneRequestPerStep ==
    /\ srvEnv' = srvEnv
    /\ \E r \in Requests :
           \A q \in Requests \ {r} :
               req'[q] = req[q] /\ sent'[q] = sent[q] /\ calls'[q] = calls[q]

\* C10: with several requests in flight at once, under every interleaving of
\* their suspension points, each success response carries the html, css,
\* sqlSchema and nodeRoute produced for its own request and its own url as
\* metadata.sourceUrl, and no step of a request changes what another request
\* holds or the shared configuration.
C10_RequestsIsolated == []EachResponseIsOwn /\ [][OneRequestPerStep]_vars

\* request 1 has been answered with its own success envelope while request 2,
\* for another url, is in flight between its render and its generation
C10_Witness ==
    /\ req[1].pc = "done" /\ req[1].url = JStr(UrlA)
    /\ Len(sent[1]) = 1 /\ sent[1][1].status = 200
    /\ sent[1][1].data.metadata.sourceUrl = UrlA
    /\ req[2].pc = "generating" /\ req[2].url = JStr(UrlB)

-----------------------------------------------------------------------------
(* Properties of cleanHTML, checked under SpecClean.                       *)

\* C8: the output of cleanHTML contains none of "<script", "<iframe",
\* "<noscript", compared case-insensitively, for every input, nested,
\* unclosed or malformed tags included.
C8_NoActiveTags ==
    cleanPc \in {"cleaned", "recleaned"} =>
        \A tag \in {TagScript, TagIframe, TagNoscript} :
            ~IncludesCI(cleanOut, <<"<">> \o tag)

\* C9: cleanHTML is idempotent: cleaning its own output changes nothing.
C9_Idempotent == cleanPc = "recleaned" => cleanOut2 = cleanOut

-----------------------------------------------------------------------------
(* Properties of scrapeWebsite, checked under SpecScrape.                  *)

\* C4: a scrapeWebsite call that launched a browser has invoked
\* browser.close() exactly once when it returns or throws, on every exit
\* path, never more than once before, and between calls no launched browser
\* is left without its close().
C4_BrowserAlwaysClosed ==
    /\ scrCloses <= 1
    /\ scrOpen \subseteq {scrBrowser}
    /\ scrPc \in {"returned", "thrown"} =>
           /\ scrBrowser # 0 => scrCloses = 1
           /\ scrOpen = {}

\* the last of a sequence of calls failed on navigation timeout, with its
\* browser launched and closed
C4_Witness ==
    /\ scrCalls = MaxCalls
    /\ scrPc = "thrown"
    /\ scrResult = ScrapeThrows(PupNavTimeout)
    /\ scrBrowser # 0
    /\ scrCloses = 1

-----------------------------------------------------------------------------
(* Properties of the handler's sequencing and of its envelopes (Spec).     *)

\* the step in which request r leaves its wait for scrapeWebsite without
\* going on to generate: scrapeWebsite threw
ScrapeFailed(r) == req[r].pc = "scraping" /\ req'[r].pc = "done"

\* after that step the request has its single 500 envelope, whose error holds
\* the message of the failure; scrapeWebsite was called once and
\* generateBackendCode not at all
FailureSurfaced(r) ==
    /\ Len(sent'[r]) = 1
    /\ sent'[r][1].status = 500
    /\ \E m \in ScrapeFailures : Includes(sent'[r][1].error, m)
    /\ calls'[r] = [scrape |-> 1, generate |-> 0, model |-> 0]

\* generateBackendCode is called at most once, never before or without a
\* scrapeWebsite call that returned, and then with that call's page
StagesInOrder ==
    \A r \in Requests :
        /\ calls[r].scrape <= 1
        /\ calls[r].generate <= calls[r].scrape
        /\ req[r].pc = "scraping" => calls[r].generate = 0
        /\ calls[r].generate = 1 => req[r].pc \in {"generating", "done"}
        /\ req[r].pc = "generating" =>
               /\ calls[r].generate = 1
               /\ req[r].page.html = Scraped[req[r].url.s].html

ThrownBy(r, message) ==
    IF calls[r].generate = 0
        THEN \E m \in ScrapeFailures : message = MsgScrapePrefix \o m
    ELSE /\ Generated[srvEnv, req[r].reply].kind = "throw"
         /\ message = Generated[srvEnv, req[r].reply].message

\* the fixed parts of the 500 envelope of request r: success false, the
\* message of the exception, the apology
FailureEnvelope(r, response) ==
    /\ response.success = FALSE
    /\ ThrownBy(r, response.error)
    /\ response.message = MsgCloneFailed

HasStack(response) == response.details # Absent

\* C12 as stated: every 500 envelope has success false, the error message and
\* the apology, and has the stack in details exactly when NODE_ENV is not
\* "production", unset included.
C12_StackOutsideProduction ==
    \A r \in Requests : \A k \in 1..Len(sent[r]) :
        sent[r][k].status = 500 =>
            /\ FailureEnvelope(r, sent[r][k])
            /\ HasStack(sent[r][k]) <=> srvEnv.nodeEnv # "production"

\* C12 (amended): every 500 envelope has success false, the error message and
\* the apology, and has the stack in details exactly when NODE_ENV is
\* "development": not in production, and not when NODE_ENV is unset.
C12_StackInDevelopment ==
    \A r \in Requests : \A k \in 1..Len(sent[r]) :
        sent[r][k].status = 500 =>
            /\ FailureEnvelope(r, sent[r][k])
            /\ HasStack(sent[r][k]) <=> srvEnv.nodeEnv = "development"
            /\ HasStack(sent[r][k]) => sent[r][k].details.stackOf = sent[r][k].error

\* with NODE_ENV unset, a generation failure was answered 500 without details
C12_Witness ==
    /\ srvEnv.nodeEnv = "unset"
    /\ \E r \in Requests :
           /\ calls[r].generate = 1
           /\ Len(sent[r]) = 1
           /\ sent[r][1].status = 500
           /\ sent[r][1].error = ErrRateLimit
           /\ ~HasStack(sent[r][1])

-----------------------------------------------------------------------------
(* Properties of the values generateBackendCode returns (SpecGen).         *)

\* a field with content: a string of at least one character, or an object
\* with at least one member
NonEmpty(v) ==
    CASE v.t = "str" -> v.s # <<>>
      [] v.t = "obj" -> v.members # <<>>
      [] OTHER -> FALSE

\* C13: every value generateBackendCode returns, parsed from the reply or the
\* fallback, has a non-empty sqlSchema and a non-empty nodeRoute.
C13_ReturnedFieldsNonEmpty ==
    (genPc = "done" /\ genResult.kind = "return") =>
        /\ NonEmpty(genResult.value.sqlSchema)
        /\ NonEmpty(genResult.value.nodeRoute)

-----------------------------------------------------------------------------
(* Properties of the responses of the handler (Spec).                      *)

\* the handler's own three kinds of response
IsValidation(response) ==
    response \in {BadRequest(ErrUrlRequired, MsgUrlRequired),
                  BadRequest(ErrInvalidUrl, MsgInvalidUrl)}
IsSuccess(response) == response.status = 200 /\ response.success = TRUE
IsPipelineFailure(response) ==
    /\ response.status = 500
    /\ DOMAIN response = {"status", "success", "error", "message", "details"}
    /\ response.success = FALSE
    /\ response.message = MsgCloneFailed

FromErrorHandler(response) ==
    response.status = 500 /\ DOMAIN response = DOMAIN ErrorHandler(<<>>)

\* C14: a request sends nothing while its handler runs and exactly one
\* response when it ends, which is the handler's 400, 200 or 500; after a 400
\* no stage was started and nothing more is sent, and no response comes from
\* the final error middleware.
C14_ExactlyOneResponse ==
    \A r \in Requests :
        /\ Len(sent[r]) = IF req[r].pc = "done" THEN 1 ELSE 0
        /\ \A k \in 1..Len(sent[r]) :
               /\ \/ IsValidation(sent[r][k])
                  \/ IsSuccess(sent[r][k])
                  \/ IsPipelineFailure(sent[r][k])
               /\ ~FromErrorHandler(sent[r][k])
               /\ IsValidation(sent[r][k]) => calls[r] = NoCalls

\* one request has ended with the early 400, another with the 500 of a
\* generation failure
C14_Witness ==
    \E r, q \in Requests :
        /\ req[r].pc = "done" /\ Len(sent[r]) = 1 /\ IsValidation(sent[r][1])
        /\ req[q].pc = "done" /\ Len(sent[q]) = 1 /\ IsPipelineFailure(sent[q][1])
        /\ calls[q].generate = 1

-----------------------------------------------------------------------------
(* Termination of scrapeWebsite (SpecScrapeLive).                          *)

\* C15: when every await settles and the timer keeps ticking, a scrapeWebsite
\* call that has started eventually returns or throws, with its browser
\* closed: in particular the auto-scroll loop ends for every page, pages that
\* grow as they are scrolled included.
C15_ScrapeTerminates ==
    (scrPc \notin {"idle", "returned", "thrown"})
        ~> (scrPc \in {"returned", "thrown"} /\ scrOpen = {})

====
